---- MODULE Spec2Model ----
(***************************************************************************)
(* Model of the CS182A/282A participation portal: the in-memory DataStore  *)
(* of backend_api.py, its HTTP endpoints, and the Ed ingestion handlers of *)
(* ed_integration.py that write to it.                                     *)
(*                                                                         *)
(* Python values are tagged tuples so that values of different Python      *)
(* types can be stored in one dict field and compared:                     *)
(*   None == <<"none">>, I(n) == <<"int", n>>, S(s) == <<"str", s>>.       *)
(* A dict is a TLA+ record; a key the dict does not have is a field the    *)
(* record does not have (see Get, which models dict.get).  A report        *)
(* string built by generate_executive_summary is R(rec), the record of the *)
(* values the report prints; it always starts with a literal heading, so   *)
(* it is a non-empty string.                                               *)
(***************************************************************************)
EXTENDS Integers, Sequences, FiniteSets, TLC

VARIABLES posts, submissions, students, homeworks, llms,
          started, writes, request, response,
          variant, phase, ed_threads, tasks, events

vars == <<posts, submissions, students, homeworks, llms,
          started, writes, request, response,
          variant, phase, ed_threads, tasks, events>>

(***************************************************************************)
(* Bounds                                                                  *)
(***************************************************************************)
\* number of write requests (POST/PUT) API clients send after startup
MaxWrites == 2
\* number of threads posted or edited on Ed
MaxEvents == 2

(***************************************************************************)
(* Python values                                                           *)
(***************************************************************************)
None == <<"none">>
I(n) == <<"int", n>>
S(s) == <<"str", s>>
\* a list, as the sequence of its elements
L(seq) == <<"list", seq>>
\* the text of a generated report, as the record of the values it prints
R(rec) == <<"report", rec>>

IsNone(v) == v[1] = "none"
IsInt(v) == v[1] = "int"
IsStr(v) == v[1] = "str"
IsList(v) == v[1] = "list"

\* bool(v)
Truthy(v) ==
  CASE IsNone(v) -> FALSE
    [] IsInt(v) -> v[2] # 0
    [] IsStr(v) -> v[2] # ""
    [] IsList(v) -> v[2] # <<>>
    [] OTHER -> TRUE

\* str(v): the text of a value, as a TLA+ string
PyStr(v) ==
  CASE IsNone(v) -> "None"
    [] IsInt(v) -> ToString(v[2])
    [] IsStr(v) -> v[2]

\* d.get(k, default)
Get(d, k, default) == IF k \in DOMAIN d THEN d[k] ELSE default

\* d.get(k)
GetOrNone(d, k) == Get(d, k, None)

Range(s) == {s[i] : i \in 1..Len(s)}

(***************************************************************************)
(* String functions on the strings that occur in the model                 *)
(***************************************************************************)
\* s.strip()
strip(s) ==
  CASE s = " 1" -> "1"
    [] s = " N/A" -> "N/A"
    [] s = " a" -> "a"
    [] s = " Dan Brown" -> "Dan Brown"
    [] s = " " -> ""
    [] OTHER -> s

\* s.upper()
upper(s) ==
  CASE s = "a" -> "A"
    [] s = "b" -> "B"
    [] s = "c" -> "C"
    [] s = "d" -> "D"
    [] s = "e" -> "E"
    [] s = "n/a" -> "N/A"
    [] s = "na" -> "NA"
    [] s = "unknown" -> "UNKNOWN"
    [] s = "unk" -> "UNK"
    [] s = "Unknown" -> "UNKNOWN"
    [] s = "hw1" -> "HW1"
    [] s = "abc" -> "ABC"
    [] OTHER -> s

\* s.lower()
lower(s) ==
  CASE s = "A" -> "a"
    [] s = "B" -> "b"
    [] s = "E" -> "e"
    [] s = "N/A" -> "n/a"
    [] s = "NA" -> "na"
    [] s = "Unknown" -> "unknown"
    [] s = "UNKNOWN" -> "unknown"
    [] s = "Special" -> "special"
    [] s = "Participation" -> "participation"
    [] s = "Question" -> "question"
    [] s = "General" -> "general"
    [] s = "HW0" -> "hw0"
    [] s = "HW1" -> "hw1"
    [] s = "Grok" -> "grok"
    [] s = "Claude" -> "claude"
    [] OTHER -> s

\* the decimal strings int() accepts, with their values
Digits == 0..12

\* s.isdigit()
isdigit(s) == \E n \in Digits : s = ToString(n)

\* int(s) for a string that is a decimal number
int(s) == CHOOSE n \in Digits : s = ToString(n)

\* the order of sorted() on strings (code point order)
StringOrder ==
  <<"", "0", "1", "10", "2", "A", "Alice Johnson", "B", "Bob Smith", "C",
    "Carol Williams", "ChatGPT", "Claude", "Dan Brown", "Gemini", "Grok",
    "N/A", "None", "Unknown", "unknown">>

StringRank(s) == CHOOSE i \in 1..Len(StringOrder) : StringOrder[i] = s

\* sorted(set) for a set of strings with a key: the strictly increasing
\* sequence of the set's elements
SortBy(set, key) ==
  LET f[T \in SUBSET set] ==
        IF T = {} THEN <<>>
        ELSE LET m == CHOOSE x \in T : \A y \in T : key[x] <= key[y]
             IN <<m>> \o f[T \ {m}]
  IN f[set]

\* sorted(set_of_strings)
sorted(set) == SortBy(set, [x \in set |-> StringRank(x)])

(***************************************************************************)
(* DataStore (backend_api.py)                                              *)
(***************************************************************************)
\* the DataStore object `db` as one value
db == [posts |-> posts, submissions |-> submissions, students |-> students,
       homeworks |-> homeworks, llms |-> llms]

\* DataStore.__init__
DataStore_init ==
  [posts |-> <<>>, submissions |-> [k \in {} |-> None], students |-> {},
   homeworks |-> {}, llms |-> {}]

\* list.remove(x): drops the first element equal to x
remove(list, x) ==
  LET i == CHOOSE j \in 1..Len(list) :
             list[j] = x /\ \A k \in 1..(j - 1) : list[k] # x
  IN SubSeq(list, 1, i - 1) \o SubSeq(list, i + 1, Len(list))

\* next((p for p in posts if p['post_id'] == post_id), None), as the set of
\* the first match (empty when there is none)
existing_post(list, post_id) ==
  {list[j] : j \in {j \in 1..Len(list) :
                      /\ list[j].post_id = post_id
                      /\ \A k \in 1..(j - 1) : list[k].post_id # post_id}}

\* the set after `if value: set.add(text)`
add_if(set, value, text) == IF Truthy(value) THEN set \cup {text} ELSE set

\* the "Update sets" part with sets rebuilt from the new post alone
add_post_sets_rebuilt(d, post_data) ==
  [d EXCEPT
     !.students = add_if({}, GetOrNone(post_data, "author"),
                         PyStr(post_data.author)),
     !.homeworks = add_if({}, GetOrNone(post_data, "homework_number"),
                          PyStr(post_data.homework_number)),
     !.llms = add_if({}, GetOrNone(post_data, "llm_agent"),
                     PyStr(post_data.llm_agent))]

\* the "Update sets" part without the assistants
add_post_sets_no_llms(d, post_data) ==
  [d EXCEPT
     !.students = add_if(@, GetOrNone(post_data, "author"),
                         PyStr(post_data.author)),
     !.homeworks = add_if(@, GetOrNone(post_data, "homework_number"),
                          PyStr(post_data.homework_number))]

\* the "Update sets" part of DataStore.add_post
add_post_sets(d, post_data) ==
  [d EXCEPT
     !.students = add_if(@, GetOrNone(post_data, "author"),
                         PyStr(post_data.author)),
     !.homeworks = add_if(@, GetOrNone(post_data, "homework_number"),
                          PyStr(post_data.homework_number)),
     !.llms = add_if(@, GetOrNone(post_data, "llm_agent"),
                     PyStr(post_data.llm_agent))]

\* add_post without the removal of the existing post
add_post_no_remove(d, post_data) ==
  [add_post_sets(d, post_data) EXCEPT !.posts = Append(@, post_data)]

\* add_post that keeps the existing post's value where the new one is None
add_post_merge(d, post_data) ==
  LET existing == existing_post(d.posts, post_data.post_id)
      old == CHOOSE p \in existing : TRUE
      merged == IF existing = {} THEN post_data
                ELSE [k \in DOMAIN post_data |->
                        IF IsNone(post_data[k]) THEN GetOrNone(old, k)
                        ELSE post_data[k]]
      kept == IF existing # {} THEN remove(d.posts, old) ELSE d.posts
  IN [add_post_sets(d, post_data) EXCEPT !.posts = Append(kept, merged)]

\* add_post with the append in an else branch of `if existing`
add_post_else_append(d, post_data) ==
  LET existing == existing_post(d.posts, post_data.post_id)
  IN [add_post_sets(d, post_data) EXCEPT
        !.posts = IF existing # {}
                  THEN remove(d.posts, CHOOSE p \in existing : TRUE)
                  ELSE Append(d.posts, post_data)]

\* add_post interrupted after the removal of the existing post
add_post_removal_only(d, post_data) ==
  LET existing == existing_post(d.posts, post_data.post_id)
  IN [d EXCEPT !.posts = IF existing # {}
                         THEN remove(d.posts, CHOOSE p \in existing : TRUE)
                         ELSE d.posts]

\* add_post that overwrites an existing post at its position
add_post_in_place(d, post_data) ==
  [add_post_sets(d, post_data) EXCEPT
     !.posts = IF existing_post(d.posts, post_data.post_id) # {}
               THEN [i \in 1..Len(d.posts) |->
                       IF d.posts[i].post_id = post_data.post_id
                       THEN post_data ELSE d.posts[i]]
               ELSE Append(d.posts, post_data)]

\* DataStore.add_post
add_post(d, post_data) ==
  LET existing == existing_post(d.posts, post_data.post_id)
      kept == IF existing # {}
              THEN remove(d.posts, CHOOSE p \in existing : TRUE)
              ELSE d.posts
  IN [add_post_sets(d, post_data) EXCEPT !.posts = Append(kept, post_data)]

\* the composite key without the homework reference
submission_key_no_homework(submission_data) ==
  <<GetOrNone(submission_data, "name"), GetOrNone(submission_data, "llm")>>

\* the composite key of DataStore.add_submission
submission_key(submission_data) ==
  <<GetOrNone(submission_data, "name"),
    PyStr(GetOrNone(submission_data, "homework")),
    GetOrNone(submission_data, "llm")>>

\* submissions[key] = submission_data
dict_set(dict, key, value) ==
  [k \in DOMAIN dict \cup {key} |-> IF k = key THEN value ELSE dict[k]]

\* DataStore.add_submission
add_submission(d, submission_data) ==
  [d EXCEPT
     !.submissions = dict_set(@, submission_key(submission_data),
                              submission_data),
     !.students = add_if(@, GetOrNone(submission_data, "name"),
                         PyStr(submission_data.name)),
     !.homeworks = add_if(@, GetOrNone(submission_data, "homework"),
                          PyStr(submission_data.homework)),
     !.llms = add_if(@, GetOrNone(submission_data, "llm"),
                     PyStr(submission_data.llm))]

(***************************************************************************)
(* Pydantic models (backend_api.py)                                        *)
(***************************************************************************)
\* validate_homework_number that keeps a string it cannot convert
validate_homework_number_keep(v) ==
  IF IsNone(v) THEN None
  ELSE IF IsInt(v) THEN v
  ELSE LET v_stripped == strip(v[2])
           v_lower == lower(v_stripped)
           v_upper == upper(v_stripped)
       IN IF v_upper = "N/A" \/ v_upper = "NA" THEN S("N/A")
          ELSE IF v_lower = "unknown" \/ v_lower = "unk" THEN S("unknown")
          ELSE IF isdigit(v_stripped) THEN I(int(v_stripped))
          ELSE S(v_stripped)

\* Post.validate_homework_number
validate_homework_number(v) ==
  IF IsNone(v) THEN None
  ELSE IF IsInt(v) THEN v
  ELSE LET v_stripped == strip(v[2])
           v_lower == lower(v_stripped)
           v_upper == upper(v_stripped)
       IN IF v_upper = "N/A" \/ v_upper = "NA" THEN S("N/A")
          ELSE IF v_lower = "unknown" \/ v_lower = "unk" THEN S("unknown")
          ELSE IF v_stripped = "" THEN S("unknown")
          ELSE IF isdigit(v_stripped) THEN I(int(v_stripped))
          ELSE S("unknown")

PostFields ==
  {"post_id", "post_number", "title", "author", "content",
   "participation_type", "homework_number", "llm_agent", "timestamp", "url",
   "category", "pdf_urls"}

\* Post(**body).dict(): every field is a key, an omitted optional field is
\* None, and homework_number has passed its validator
Post_dict(body) ==
  [k \in PostFields |->
     IF k = "homework_number"
     THEN validate_homework_number(GetOrNone(body, k))
     ELSE GetOrNone(body, k)]

SubmissionFields ==
  {"name", "participation", "homework", "llm", "post_url", "timestamp"}

\* Submission(**body).dict()
Submission_dict(body) == [k \in SubmissionFields |-> body[k]]

(***************************************************************************)
(* Read endpoints (backend_api.py)                                         *)
(***************************************************************************)
\* get_students
get_students(d) ==
  LET names == sorted(d.students)
  IN [i \in 1..Len(names) |-> [name |-> names[i]]]

\* the sort key of the lexicographic order of strings
homework_sort_key_lexicographic(x) == StringRank(x)

\* key=lambda x: int(x) if x.isdigit() else 0
homework_sort_key(x) == IF isdigit(x) THEN int(x) ELSE 0

\* sorted(set, key): the elements in ascending key order.  Elements with
\* equal keys keep the set's iteration order, which Python leaves
\* unspecified, so the result is the sequence of the groups of equal key.
sorted_groups(set) ==
  LET keys == {homework_sort_key(x) : x \in set}
      order == SortBy(keys, [k \in keys |-> k])
  IN [i \in 1..Len(order) |->
        {x \in set : homework_sort_key(x) = order[i]}]

\* one entry of get_homeworks, annotated from the submissions as well
homework_info_with_submissions(d, hw) ==
  LET matching == SelectSeq(d.posts,
                    LAMBDA post :
                      PyStr(GetOrNone(post, "homework_number")) = hw)
      subs == {d.submissions[k] : k \in {x \in DOMAIN d.submissions :
                                            x[2] = hw}}
  IN [number |-> hw,
      students |-> {PyStr(post.author) :
                      post \in {q \in Range(matching) :
                                  Truthy(GetOrNone(q, "author"))}}
                     \cup {PyStr(b.name) : b \in subs},
      llms |-> {PyStr(post.llm_agent) :
                  post \in {q \in Range(matching) :
                              Truthy(GetOrNone(q, "llm_agent"))}}
                 \cup {PyStr(b.llm) : b \in subs}]

\* one entry of get_homeworks; list(set) is kept as the set
homework_info(d, hw) ==
  LET matching == SelectSeq(d.posts,
                    LAMBDA post :
                      PyStr(GetOrNone(post, "homework_number")) = hw)
  IN [number |-> hw,
      students |-> {PyStr(post.author) :
                      post \in {q \in Range(matching) :
                                  Truthy(GetOrNone(q, "author"))}},
      llms |-> {PyStr(post.llm_agent) :
                  post \in {q \in Range(matching) :
                              Truthy(GetOrNone(q, "llm_agent"))}}]

\* get_homeworks
get_homeworks(d) ==
  LET groups == sorted_groups(d.homeworks)
  IN [i \in 1..Len(groups) |-> {homework_info(d, hw) : hw \in groups[i]}]

\* one entry of get_llms
llm_info(d, llm) ==
  LET matching == SelectSeq(d.posts,
                    LAMBDA post : GetOrNone(post, "llm_agent") = S(llm))
  IN [name |-> llm,
      students |-> {PyStr(post.author) :
                      post \in {q \in Range(matching) :
                                  Truthy(GetOrNone(q, "author"))}},
      homeworks |-> {PyStr(post.homework_number) :
                       post \in {q \in Range(matching) :
                                   Truthy(GetOrNone(q, "homework_number"))}}]

\* get_llms
get_llms(d) ==
  LET names == sorted(d.llms)
  IN [i \in 1..Len(names) |-> llm_info(d, names[i])]

\* " ".join(words)
RECURSIVE join(_)
join(words) ==
  IF words = <<>> THEN ""
  ELSE IF Len(words) = 1 THEN words[1]
  ELSE words[1] \o " " \o join(Tail(words))

\* the texts of the model, as their words
KnownTexts ==
  {<<>>, <<"notes">>, <<"Untitled">>,
   <<"I", "used", "Claude", "to", "help", "debug", "my", "implementation...">>,
   <<"ChatGPT", "helped", "me", "understand", "the", "algorithm...">>,
   <<"Gemini", "provided", "insights", "into", "optimization...">>,
   <<"Special", "Participation", "A">>,
   <<"Special", "Participation", "A", "HW1", "Claude">>,
   <<"Special", "Participation", "A", "HW0", "Claude">>,
   <<"Special", "Participation", "A", "Claude">>,
   <<"Special", "Participation", "E", "HW1", "Claude">>,
   <<"Special", "Participation", "A", "HW1">>,
   <<"Question", "about", "HW1", "Claude">>}

\* s.split()
split(s) == CHOOSE words \in KnownTexts : join(words) = s

\* len(s.split())
word_count(s) == Len(split(s))

RECURSIVE Sum(_)
Sum(seq) == IF seq = <<>> THEN 0 ELSE Head(seq) + Sum(Tail(seq))

\* seq[:n]
Take(seq, n) == SubSeq(seq, 1, IF Len(seq) < n THEN Len(seq) ELSE n)

\* generate_executive_summary without the test for an empty list
generate_executive_summary_no_floor(plist) ==
    LET contents == SelectSeq(plist,
                      LAMBDA post : Truthy(GetOrNone(post, "content")))
        texts == [i \in 1..Len(contents) |-> PyStr(contents[i].content)]
    IN IF texts = <<>>
       THEN S("No content available in posts to generate summary.")
       ELSE
         LET all == Range(plist)
             shown == Take(plist, 3)
         IN R([total_posts |-> Len(plist),
               word_count |->
                 Sum([i \in 1..Len(texts) |-> word_count(texts[i])]),
               char_count |->
                 Sum([i \in 1..Len(texts) |-> Len(texts[i])])
                   + (Len(texts) - 1),
               authors |->
                 sorted({PyStr(Get(post, "author", S("Unknown"))) :
                           post \in all}),
               homeworks |->
                 sorted_groups(
                   {PyStr(post.homework_number) :
                      post \in {q \in all :
                                  Truthy(GetOrNone(q, "homework_number"))}}),
               llms |->
                 sorted({PyStr(post.llm_agent) :
                           post \in {q \in all :
                                       Truthy(GetOrNone(q, "llm_agent"))}}),
               participation_types |->
                 sorted({PyStr(post.participation_type) :
                           post \in {q \in all :
                                       Truthy(GetOrNone(q,
                                                "participation_type"))}}),
               details |->
                 [i \in 1..Len(shown) |->
                    [title |-> Get(shown[i], "title", S("Untitled")),
                     author |-> Get(shown[i], "author", S("Unknown"))]],
               more |-> IF Len(plist) > 3 THEN Len(plist) - 3 ELSE 0])

\* generate_executive_summary.  The report keeps the values of the
\* overview lines, the title and author of each detail entry and the
\* count of the trailing "more post(s)" line.
generate_executive_summary(plist) ==
  IF plist = <<>> THEN S("No posts available to generate summary.")
  ELSE
    LET contents == SelectSeq(plist,
                      LAMBDA post : Truthy(GetOrNone(post, "content")))
        texts == [i \in 1..Len(contents) |-> PyStr(contents[i].content)]
    IN IF texts = <<>>
       THEN S("No content available in posts to generate summary.")
       ELSE
         LET all == Range(plist)
             shown == Take(plist, 3)
         IN R([total_posts |-> Len(plist),
               word_count |->
                 Sum([i \in 1..Len(texts) |-> word_count(texts[i])]),
               char_count |->
                 Sum([i \in 1..Len(texts) |-> Len(texts[i])])
                   + (Len(texts) - 1),
               authors |->
                 sorted({PyStr(Get(post, "author", S("Unknown"))) :
                           post \in all}),
               homeworks |->
                 sorted_groups(
                   {PyStr(post.homework_number) :
                      post \in {q \in all :
                                  Truthy(GetOrNone(q, "homework_number"))}}),
               llms |->
                 sorted({PyStr(post.llm_agent) :
                           post \in {q \in all :
                                       Truthy(GetOrNone(q, "llm_agent"))}}),
               participation_types |->
                 sorted({PyStr(post.participation_type) :
                           post \in {q \in all :
                                       Truthy(GetOrNone(q,
                                                "participation_type"))}}),
               details |->
                 [i \in 1..Len(shown) |->
                    [title |-> Get(shown[i], "title", S("Untitled")),
                     author |-> Get(shown[i], "author", S("Unknown"))]],
               more |-> IF Len(plist) > 3 THEN Len(plist) - 3 ELSE 0])

\* pdf_urls collected over the matching posts
RECURSIVE collect_pdf_urls(_)
collect_pdf_urls(plist) ==
  IF plist = <<>> THEN <<>>
  ELSE LET urls == GetOrNone(Head(plist), "pdf_urls")
       IN (IF ~Truthy(urls) THEN <<>>
           ELSE IF IsList(urls) THEN urls[2]
           ELSE <<urls>>) \o collect_pdf_urls(Tail(plist))

\* result.update(other) with the synthesized value kept for a common key
dict_update_keep(result, other) ==
  [k \in DOMAIN result \cup DOMAIN other |->
     IF k \in DOMAIN result THEN result[k] ELSE other[k]]

\* result.update(submission)
dict_update(result, other) ==
  [k \in DOMAIN result \cup DOMAIN other |->
     IF k \in DOMAIN other THEN other[k] ELSE result[k]]

\* get_submission that counts every stored post
get_submission_all_posts(d, student, homework, llm) ==
  [summary |-> generate_executive_summary(d.posts),
   pdfUrl |-> None,
   pdfUrls |-> L(<<>>),
   student |-> S(student),
   homework |-> S(homework),
   llm |-> S(llm),
   post_count |-> I(Len(d.posts))]

\* get_submission; student, homework and llm are the query strings
get_submission(d, student, homework, llm) ==
  LET key == <<S(student), homework, S(llm)>>
      matching_posts ==
        SelectSeq(d.posts,
          LAMBDA post : /\ GetOrNone(post, "author") = S(student)
                        /\ PyStr(GetOrNone(post, "homework_number")) = homework
                        /\ GetOrNone(post, "llm_agent") = S(llm))
      pdf_urls == collect_pdf_urls(matching_posts)
      summary == generate_executive_summary(matching_posts)
      result == [summary |-> summary,
                 pdfUrl |-> IF pdf_urls # <<>> THEN pdf_urls[1] ELSE None,
                 pdfUrls |-> L(pdf_urls),
                 student |-> S(student),
                 homework |-> S(homework),
                 llm |-> S(llm),
                 post_count |-> I(Len(matching_posts))]
  IN IF key \in DOMAIN d.submissions
     THEN LET merged == dict_update(result, d.submissions[key])
          IN IF ~Truthy(GetOrNone(merged, "summary"))
             THEN [merged EXCEPT !.summary = summary]
             ELSE merged
     ELSE result

\* a comma-separated query parameter, as the sequence of its components:
\* Csv(<<"a", " b">>) is the string "a, b" and Csv(<<"">>) is ""
Csv(components) == <<"csv", components>>

\* bool(param) for an optional query parameter
provided(param) == ~IsNone(param) /\ param[2] # <<"">>

\* [x.strip() for x in param.split(',')]
split_strip(param) == {strip(param[2][i]) : i \in 1..Len(param[2])}

\* maximal length of the excerpt of a post
ExcerptLen == 150

\* the display shape of one post in get_posts
post_display(post) ==
  LET content == Get(post, "content", S(""))
  IN [post_id |-> GetOrNone(post, "post_id"),
      post_number |-> GetOrNone(post, "post_number"),
      title |-> Get(post, "title", S("Untitled")),
      author |-> Get(post, "author", S("Unknown")),
      participation |-> Get(post, "participation_type", S("A")),
      content |-> content,
      excerpt |-> IF Len(PyStr(content)) > ExcerptLen
                  THEN <<"prefix", ExcerptLen, content>>
                  ELSE content,
      homework_number |-> GetOrNone(post, "homework_number"),
      llm_agent |-> GetOrNone(post, "llm_agent"),
      url |-> Get(post, "url", S("#")),
      pdf_urls |-> Get(post, "pdf_urls", L(<<>>)),
      timestamp |-> Get(post, "timestamp", S("")),
      category |-> GetOrNone(post, "category")]

\* get_posts
get_posts(d, participation, students_q, homeworks_q, llms_q) ==
  LET by_participation(post) ==
        provided(participation) =>
          \E x \in {upper(y) : y \in split_strip(participation)} :
             GetOrNone(post, "participation_type") = S(x)
      by_student(post) ==
        provided(students_q) =>
          \E x \in split_strip(students_q) : GetOrNone(post, "author") = S(x)
      by_homework(post) ==
        provided(homeworks_q) =>
          /\ Truthy(GetOrNone(post, "homework_number"))
          /\ PyStr(GetOrNone(post, "homework_number"))
               \in split_strip(homeworks_q)
      by_llm(post) ==
        provided(llms_q) =>
          \E x \in split_strip(llms_q) : GetOrNone(post, "llm_agent") = S(x)
      filtered_posts ==
        SelectSeq(SelectSeq(SelectSeq(SelectSeq(d.posts, by_participation),
                                      by_student),
                            by_homework),
                  by_llm)
  IN [i \in 1..Len(filtered_posts) |-> post_display(filtered_posts[i])]

(***************************************************************************)
(* EdParticipationParser (ed_integration.py)                               *)
(*                                                                         *)
(* A text is the sequence of its whitespace-separated words; every word of *)
(* the model is a run of word characters (or one of the hyphenated         *)
(* assistant names), so the regex anchor \b falls on the word borders.     *)
(***************************************************************************)
has_word(text, w) == \E i \in 1..Len(text) : text[i] = w

has_pair(text, w1, w2) ==
  \E i \in 1..(Len(text) - 1) : text[i] = w1 /\ text[i + 1] = w2

\* [w.lower() for w in text]
lower_words(text) == [i \in 1..Len(text) |-> lower(text[i])]

\* the order of PARTICIPATION_PATTERNS
PARTICIPATION_ORDER == <<"a", "b", "c", "d", "e">>

\* re.search(PARTICIPATION_PATTERNS[X], text) for the lower-case letter x:
\* "participation x", "part x", with or without the space, or "px"; for E
\* also "special participation e"
participation_match(text, x) ==
  \/ has_pair(text, "participation", x)
  \/ has_word(text, "participation" \o x)
  \/ has_pair(text, "part", x)
  \/ has_word(text, "part" \o x)
  \/ has_word(text, "p" \o x)
  \/ (x = "e" /\ \E i \in 1..(Len(text) - 2) :
        text[i] = "special" /\ text[i + 1] = "participation"
          /\ text[i + 2] = "e")

\* participation_of with the last matching category in dict order
participation_of_last(text) ==
  LET hits == {i \in 1..Len(PARTICIPATION_ORDER) :
                 participation_match(text, PARTICIPATION_ORDER[i])}
  IN IF hits = {} THEN None
     ELSE S(upper(PARTICIPATION_ORDER[
                    CHOOSE i \in hits : \A j \in hits : j <= i]))

\* the first matching category in dict order, or None
participation_of(text) ==
  LET hits == {i \in 1..Len(PARTICIPATION_ORDER) :
                 participation_match(text, PARTICIPATION_ORDER[i])}
  IN IF hits = {} THEN None
     ELSE S(upper(PARTICIPATION_ORDER[
                    CHOOSE i \in hits : \A j \in hits : i <= j]))

\* digits of a word made of digits only, else -1
digits_of(w) == IF isdigit(w) THEN int(w) ELSE -1

\* N of a word "hwN" or "homeworkN", else -1
glued_number(w) ==
  LET ns == {n \in Digits :
               w = "hw" \o ToString(n) \/ w = "homework" \o ToString(n)}
  IN IF ns = {} THEN -1 ELSE CHOOSE n \in ns : TRUE

\* the number HOMEWORK_PATTERN captures in a match that starts at word i,
\* else -1
homework_at(text, i) ==
  IF glued_number(text[i]) >= 0 THEN glued_number(text[i])
  ELSE IF /\ text[i] \in {"hw", "homework"}
          /\ i < Len(text)
          /\ digits_of(text[i + 1]) >= 0
       THEN digits_of(text[i + 1])
  ELSE -1

\* N of a word that contains "hw" directly followed by the digits N without
\* being "hwN" (only HW\s*(\d+) matches in it), else -1
inner_number(w) ==
  CASE w = "hw1st" -> 1
    [] w = "myhw2" -> 2
    [] OTHER -> -1

\* the number the fallback pattern HW\s*(\d+) captures at word i, else -1
fallback_at(text, i) ==
  IF homework_at(text, i) >= 0 THEN homework_at(text, i)
  ELSE inner_number(text[i])

\* the value of the leftmost match, else -1; values[i] is the number
\* captured in a match that starts at word i, else -1
first_match(values) ==
  LET hits == {i \in 1..Len(values) : values[i] >= 0}
  IN IF hits = {} THEN -1
     ELSE values[CHOOSE i \in hits : \A j \in hits : i <= j]

\* LLM_PATTERNS in dict order: name, the words and the word pairs that match
LLM_PATTERNS ==
  <<[name |-> "Claude", words |-> {"claude"}, pairs |-> {}],
    [name |-> "ChatGPT", words |-> {"chatgpt", "gpt-4", "gpt4"},
     pairs |-> {<<"gpt", "4">>}],
    [name |-> "GPT-3.5", words |-> {"gpt-3.5", "gpt3.5"},
     pairs |-> {<<"gpt", "3.5">>}],
    [name |-> "GPT-4o", words |-> {"gpt-4o", "gpt4o"},
     pairs |-> {<<"gpt", "4o">>}],
    [name |-> "GPT-5.1", words |-> {"gpt-5.1", "gpt5.1"},
     pairs |-> {<<"gpt", "5.1">>}],
    [name |-> "Gemini", words |-> {"gemini"}, pairs |-> {}],
    [name |-> "LLaMA", words |-> {"llama"}, pairs |-> {}],
    [name |-> "Mistral", words |-> {"mistral"}, pairs |-> {}],
    [name |-> "Copilot", words |-> {"copilot"}, pairs |-> {}],
    [name |-> "Grok", words |-> {"grok"}, pairs |-> {}],
    [name |-> "Qwen", words |-> {"qwen"}, pairs |-> {}],
    [name |-> "Kimi", words |-> {"kimi"}, pairs |-> {}],
    [name |-> "DeepSeek", words |-> {"deepseek"}, pairs |-> {}],
    [name |-> "Windsurf", words |-> {"windsurf"}, pairs |-> {}],
    [name |-> "Perplexity", words |-> {"perplexity"}, pairs |-> {}],
    [name |-> "Cursor", words |-> {"cursor"}, pairs |-> {}],
    [name |-> "Nano Banana", words |-> {}, pairs |-> {<<"nano", "banana">>}],
    [name |-> "GPT-Oss", words |-> {"gpt-oss"}, pairs |-> {}],
    [name |-> "Gemini Opus", words |-> {"opus"}, pairs |-> {}]>>

\* llm_of with the name "Unknown" when no pattern matches
llm_of_unknown(text, patterns) ==
  LET hits == {i \in 1..Len(patterns) :
                 \/ \E w \in patterns[i].words : has_word(text, w)
                 \/ \E pr \in patterns[i].pairs :
                      has_pair(text, pr[1], pr[2])}
  IN IF hits = {} THEN S("Unknown")
     ELSE S(patterns[CHOOSE i \in hits : \A j \in hits : i <= j].name)

\* the first assistant of a pattern list whose pattern matches, or None
llm_of(text, patterns) ==
  LET hits == {i \in 1..Len(patterns) :
                 \/ \E w \in patterns[i].words : has_word(text, w)
                 \/ \E pr \in patterns[i].pairs :
                      has_pair(text, pr[1], pr[2])}
  IN IF hits = {} THEN None
     ELSE S(patterns[CHOOSE i \in hits : \A j \in hits : i <= j].name)

\* parse_post with the homework detection run for category E as well
parse_post_detect_always(title, content, category) ==
  LET text == lower_words(title \o content \o category)
      participation_type == participation_of(text)
      primary == first_match([i \in 1..Len(text) |-> homework_at(text, i)])
      fallback == first_match([i \in 1..Len(text) |-> fallback_at(text, i)])
  IN [participation_type |-> participation_type,
      homework_number |->
        IF primary >= 0 THEN I(primary)
        ELSE IF fallback >= 0 THEN I(fallback)
        ELSE IF participation_type = S("E") THEN S("N/A")
        ELSE S("unknown"),
      llm_agent |-> llm_of(text, LLM_PATTERNS)]

\* EdParticipationParser.parse_post
parse_post(title, content, category) ==
  LET text == lower_words(title \o content \o category)
      participation_type == participation_of(text)
      primary == first_match([i \in 1..Len(text) |-> homework_at(text, i)])
      fallback == first_match([i \in 1..Len(text) |-> fallback_at(text, i)])
  IN [participation_type |-> participation_type,
      homework_number |->
        IF participation_type = S("E") THEN S("N/A")
        ELSE IF primary >= 0 THEN I(primary)
        ELSE IF fallback >= 0 THEN I(fallback)
        ELSE S("unknown"),
      llm_agent |-> llm_of(text, LLM_PATTERNS)]

(***************************************************************************)
(* Request bodies and query strings sent by API clients                    *)
(***************************************************************************)
\* post identifiers of client requests: demo post 3 and an unused one
ClientPostIds == {3, 4}

HomeworkInputs == {None, I(0), I(1), S("N/A"), S("unknown")}

\* a post whose title and author are empty strings and whose optional
\* fields are omitted
EmptyPost ==
  [post_id |-> I(4),
   post_number |-> None,
   title |-> S(""),
   author |-> S(""),
   content |-> S("notes"),
   participation_type |-> None,
   homework_number |-> None,
   llm_agent |-> None,
   timestamp |-> S("2025-01-01T00:00:00"),
   url |-> S("https://edstem.org/us/courses/1/discussion/1"),
   category |-> None,
   pdf_urls |-> None]

\* a post of Dan Brown with all fields set and the empty string as content
NoContentPost ==
  [post_id |-> I(4),
   post_number |-> None,
   title |-> S("Special Participation A"),
   author |-> S("Dan Brown"),
   content |-> S(""),
   participation_type |-> S("A"),
   homework_number |-> I(1),
   llm_agent |-> S("Grok"),
   timestamp |-> S("2025-01-01T00:00:00"),
   url |-> S("https://edstem.org/us/courses/1/discussion/1"),
   category |-> None,
   pdf_urls |-> None]

PostBodies ==
  [post_id : {I(n) : n \in ClientPostIds},
   post_number : {None},
   title : {S("Special Participation A")},
   author : {S("Dan Brown")},
   content : {S("notes")},
   participation_type : {None, S("A")},
   homework_number : HomeworkInputs,
   llm_agent : {None, S("Grok")},
   timestamp : {S("2025-01-01T00:00:00")},
   url : {S("https://edstem.org/us/courses/1/discussion/1")},
   category : {None},
   pdf_urls : {None}]
    \cup {EmptyPost, NoContentPost}

SubmissionBodies ==
  [name : {S("Dan Brown")},
   participation : {S("A"), S("B")},
   homework : {I(0), I(10)},
   llm : {S("Grok")},
   post_url : {S("https://edstem.org/us/courses/1/discussion/1")},
   timestamp : {S("2025-01-01T00:00:00")}]

StudentQueries == {"Alice Johnson", "Dan Brown"}
HomeworkQueries == {"0", "1"}
LlmQueries == {"Claude", "Grok"}

ParticipationFilters == {None, Csv(<<" a">>)}
StudentFilters == {None, Csv(<<"Alice Johnson", " Dan Brown">>)}
HomeworkFilters == {None, Csv(<<"0", " 1", " N/A", "unknown">>)}
LlmFilters == {None, Csv(<<"Grok">>)}

(***************************************************************************)
(* Endpoints as actions (backend_api.py)                                   *)
(***************************************************************************)
\* db is left as the DataStore value d
store(d) ==
  /\ posts' = d.posts
  /\ submissions' = d.submissions
  /\ students' = d.students
  /\ homeworks' = d.homeworks
  /\ llms' = d.llms

unchanged_store == UNCHANGED <<posts, submissions, students, homeworks, llms>>

\* no request is served
unchanged_backend == unchanged_store /\ UNCHANGED <<started, request, response>>

\* the Ed course and the integration process take no step
unchanged_ed == UNCHANGED <<variant, phase, ed_threads, tasks, events>>

\* demo_posts of startup_event
demo_posts ==
  <<[post_id |-> I(1),
     title |-> S("Participation A - HW1 using Claude"),
     author |-> S("Alice Johnson"),
     content |-> S("I used Claude to help debug my implementation..."),
     participation_type |-> S("A"),
     homework_number |-> I(1),
     llm_agent |-> S("Claude"),
     timestamp |-> S("2025-01-01T00:00:00"),
     url |-> S("https://edstem.org/us/courses/12345/discussion/1"),
     category |-> S("Participation")],
    [post_id |-> I(2),
     title |-> S("Participation B - HW1 with ChatGPT"),
     author |-> S("Bob Smith"),
     content |-> S("ChatGPT helped me understand the algorithm..."),
     participation_type |-> S("B"),
     homework_number |-> I(1),
     llm_agent |-> S("ChatGPT"),
     timestamp |-> S("2025-01-01T00:00:00"),
     url |-> S("https://edstem.org/us/courses/12345/discussion/2"),
     category |-> S("Participation")],
    [post_id |-> I(3),
     title |-> S("Participation C - HW2 Gemini assistance"),
     author |-> S("Carol Williams"),
     content |-> S("Gemini provided insights into optimization..."),
     participation_type |-> S("C"),
     homework_number |-> I(2),
     llm_agent |-> S("Gemini"),
     timestamp |-> S("2025-01-01T00:00:00"),
     url |-> S("https://edstem.org/us/courses/12345/discussion/3"),
     category |-> S("Participation")]>>

\* for post in plist: db.add_post(post)
RECURSIVE add_posts(_, _)
add_posts(d, plist) ==
  IF plist = <<>> THEN d ELSE add_posts(add_post(d, Head(plist)), Tail(plist))

\* startup_event: runs once, before any request is served
startup_event ==
  /\ ~started
  /\ started' = TRUE
  /\ store(add_posts(db, demo_posts))
  /\ request' = [op |-> "startup"]
  /\ response' = None
  /\ UNCHANGED writes
  /\ unchanged_ed

\* the post upserts
PostWrites == {"create_post", "update_post"}

\* the client sends again the body of the request served just before
resend(body) == request.op \in PostWrites /\ request.body = body

\* POST /api/posts
create_post(body) ==
  /\ started
  /\ UNCHANGED started
  /\ store(add_post(db, Post_dict(body)))
  /\ request' = [op |-> "create_post", body |-> body,
                 resend |-> resend(body)]
  /\ response' = [status |-> "success", post_id |-> body.post_id]

\* PUT /api/posts/{post_id} that stores the record under the path identifier
update_post_under_path(post_id, body) ==
  /\ started
  /\ UNCHANGED started
  /\ store(add_post(db, [Post_dict(body) EXCEPT !.post_id = I(post_id)]))
  /\ request' = [op |-> "update_post", post_id |-> post_id, body |-> body,
                 resend |-> resend(body)]
  /\ response' = [status |-> "success", post_id |-> I(post_id)]

\* PUT /api/posts/{post_id}
update_post(post_id, body) ==
  /\ started
  /\ UNCHANGED started
  /\ store(add_post(db, Post_dict(body)))
  /\ request' = [op |-> "update_post", post_id |-> post_id, body |-> body,
                 resend |-> resend(body)]
  /\ response' = [status |-> "success", post_id |-> I(post_id)]

\* POST /api/submissions
create_submission(body) ==
  /\ started
  /\ UNCHANGED started
  /\ store(add_submission(db, Submission_dict(body)))
  /\ request' = [op |-> "create_submission", body |-> body]
  /\ response' = [status |-> "success"]

\* an API client sends one more write request
client_write ==
  /\ writes < MaxWrites
  /\ writes' = writes + 1
  /\ unchanged_ed

client_create_post(body) == client_write /\ create_post(body)

client_update_post(post_id, body) == client_write /\ update_post(post_id, body)

client_create_submission(body) == client_write /\ create_submission(body)

\* GET /api/students
list_students ==
  /\ started
  /\ request' = [op |-> "get_students"]
  /\ response' = get_students(db)
  /\ unchanged_store
  /\ UNCHANGED <<started, writes>>
  /\ unchanged_ed

\* GET /api/homeworks
list_homeworks ==
  /\ started
  /\ request' = [op |-> "get_homeworks"]
  /\ response' = get_homeworks(db)
  /\ unchanged_store
  /\ UNCHANGED <<started, writes>>
  /\ unchanged_ed

\* GET /api/llms
list_llms ==
  /\ started
  /\ request' = [op |-> "get_llms"]
  /\ response' = get_llms(db)
  /\ unchanged_store
  /\ UNCHANGED <<started, writes>>
  /\ unchanged_ed

\* GET /api/submissions?student=..&homework=..&llm=..
read_submission(student, homework, llm) ==
  /\ started
  /\ request' = [op |-> "get_submission", student |-> student,
                 homework |-> homework, llm |-> llm]
  /\ response' = get_submission(db, student, homework, llm)
  /\ unchanged_store
  /\ UNCHANGED <<started, writes>>
  /\ unchanged_ed

\* GET /api/posts?participation=..&students=..&homeworks=..&llms=..
read_posts(participation, students_q, homeworks_q, llms_q) ==
  /\ started
  /\ request' = [op |-> "get_posts", participation |-> participation,
                 students |-> students_q, homeworks |-> homeworks_q,
                 llms |-> llms_q]
  /\ response' = get_posts(db, participation, students_q, homeworks_q, llms_q)
  /\ unchanged_store
  /\ UNCHANGED <<started, writes>>
  /\ unchanged_ed

(***************************************************************************)
(* EdIntegration (ed_integration.py, and its older copy ed_intergration.py) *)
(*                                                                         *)
(* variant is the script that runs.  ed_threads is the Ed course: thread   *)
(* id -> thread.  tasks are the handler coroutines, in the order they were *)
(* started; each step of a task runs the handler up to its next await.     *)
(* A task records in sent the endpoints it has sent a request to.          *)
(***************************************************************************)
Variants == {"ed_integration", "ed_intergration"}

EdThreadIds == {4}

ThreadTitles ==
  {<<"Special", "Participation", "A", "HW1", "Claude">>,
   <<"Special", "Participation", "A", "HW0", "Claude">>,
   <<"Special", "Participation", "A", "Claude">>,
   <<"Special", "Participation", "E", "HW1", "Claude">>,
   <<"Special", "Participation", "A", "HW1">>,
   <<"Question", "about", "HW1", "Claude">>}

\* a thread as get_thread returns it, its user matched from the users list
ed_thread(id, title) ==
  [id |-> id, number |-> id, title |-> title, content |-> <<>>,
   user |-> S("Dan Brown")]

\* a thread as the course listing returns it: no user object
listed(thread) == [thread EXCEPT !.user = None]

\* 'Special Participation' in thread_title
is_special_participation(title) == has_pair(title, "Special", "Participation")

\* f"https://edstem.org/us/courses/{ED_COURSE_ID}/discussion/{thread.id}"
thread_url(id) ==
  S("https://edstem.org/us/courses/1/discussion/" \o ToString(id))

\* EdIntegration.process_thread (ed_integration.py)
process_thread(thread) ==
  LET thread_title == IF thread.title = <<>> THEN <<"Untitled">>
                      ELSE thread.title
      thread_content == thread.content
      parsed == parse_post(thread_title, thread_content, <<>>)
      author == IF Truthy(thread.user) THEN thread.user ELSE S("Unknown")
      final_content == IF thread_content = <<>> THEN thread_title
                       ELSE thread_content
  IN [post_id |-> I(thread.id),
      post_number |-> I(thread.number),
      title |-> S(join(thread_title)),
      author |-> author,
      content |-> S(join(final_content)),
      participation_type |-> parsed.participation_type,
      homework_number |-> parsed.homework_number,
      llm_agent |-> parsed.llm_agent,
      timestamp |-> S("2025-01-01T00:00:00"),
      url |-> thread_url(thread.id),
      category |-> None,
      pdf_urls |-> L(<<>>)]

\* the submission gate of handle_new_thread and fetch_existing_posts
\* (ed_integration.py)
submission_gate(post) ==
  /\ Truthy(post.participation_type)
  /\ ~IsNone(post.homework_number)
  /\ post.homework_number # S("N/A")
  /\ post.homework_number # S("unknown")
  /\ Truthy(post.llm_agent)

\* student_data of the handlers
student_data(post) ==
  [name |-> post.author,
   participation |-> post.participation_type,
   homework |-> post.homework_number,
   llm |-> post.llm_agent,
   post_url |-> post.url,
   timestamp |-> post.timestamp]

\* PARTICIPATION_PATTERNS and LLM_PATTERNS of ed_intergration.py
legacy_PARTICIPATION_ORDER == <<"a", "b", "c", "d">>

legacy_LLM_PATTERNS ==
  <<[name |-> "Claude", words |-> {"claude"}, pairs |-> {}],
    [name |-> "ChatGPT", words |-> {"chatgpt", "gpt-4", "gpt4"},
     pairs |-> {<<"gpt", "4">>}],
    [name |-> "GPT-3.5", words |-> {"gpt-3.5", "gpt3.5"},
     pairs |-> {<<"gpt", "3.5">>}],
    [name |-> "Gemini", words |-> {"gemini"}, pairs |-> {}],
    [name |-> "LLaMA", words |-> {"llama"}, pairs |-> {}],
    [name |-> "Mistral", words |-> {"mistral"}, pairs |-> {}],
    [name |-> "Copilot", words |-> {"copilot"}, pairs |-> {}]>>

\* EdParticipationParser.parse_post (ed_intergration.py)
legacy_parse_post(title, content, category) ==
  LET text == lower_words(title \o content \o category)
      hits == {i \in 1..Len(legacy_PARTICIPATION_ORDER) :
                 participation_match(text, legacy_PARTICIPATION_ORDER[i])}
      hw == first_match([i \in 1..Len(text) |-> homework_at(text, i)])
  IN [participation_type |->
        IF hits = {} THEN None
        ELSE S(upper(legacy_PARTICIPATION_ORDER[
                       CHOOSE i \in hits : \A j \in hits : i <= j])),
      homework_number |-> IF hw >= 0 THEN I(hw) ELSE None,
      llm_agent |-> llm_of(text, legacy_LLM_PATTERNS)]

\* EdIntegration.process_thread (ed_intergration.py)
legacy_process_thread(thread) ==
  LET parsed == legacy_parse_post(thread.title, thread.content, <<>>)
  IN [post_id |-> I(thread.id),
      title |-> S(join(thread.title)),
      author |-> thread.user,
      content |-> S(join(thread.content)),
      participation_type |-> parsed.participation_type,
      homework_number |-> parsed.homework_number,
      llm_agent |-> parsed.llm_agent,
      timestamp |-> S("2025-01-01T00:00:00"),
      url |-> thread_url(thread.id),
      category |-> None]

\* the submission gate of handle_new_thread (ed_intergration.py)
legacy_submission_gate(post) ==
  /\ Truthy(post.participation_type)
  /\ Truthy(post.homework_number)
  /\ Truthy(post.llm_agent)

\* a handler coroutine started for an event, or for a listed thread
new_task(handler, pc, thread, post) ==
  [handler |-> handler, thread_id |-> thread.id, pc |-> pc,
   thread |-> thread, post |-> post, sent |-> <<>>]

\* the handlers the subscribed client starts for an event: on_thread_new /
\* on_thread_update hand the event's thread to the handler.  The handlers
\* of ed_intergration.py process the event's thread before their first
\* await.
started_tasks(handler, thread) ==
  IF phase # "listening" THEN <<>>
  ELSE IF variant = "ed_integration"
       THEN <<new_task(handler, "fetch", thread, None)>>
  ELSE <<new_task(handler, "send_post", thread,
                  legacy_process_thread(thread))>>

\* a student posts a thread on Ed
ed_post_thread(id, title) ==
  /\ events < MaxEvents
  /\ id \notin DOMAIN ed_threads
  /\ events' = events + 1
  /\ ed_threads' = (id :> ed_thread(id, title)) @@ ed_threads
  /\ tasks' = tasks \o started_tasks("new", ed_thread(id, title))
  /\ UNCHANGED <<variant, phase, writes>>
  /\ unchanged_backend

\* a student edits the title of a thread
ed_edit_thread(id, title) ==
  /\ events < MaxEvents
  /\ id \in DOMAIN ed_threads
  /\ ed_threads[id].title # title
  /\ events' = events + 1
  /\ ed_threads' = [ed_threads EXCEPT ![id].title = title]
  /\ tasks' = tasks \o started_tasks("update", ed_thread(id, title))
  /\ UNCHANGED <<variant, phase, writes>>
  /\ unchanged_backend

\* the task i is in handler h at the await pc
at(i, variants, h, pc) ==
  /\ variant \in variants
  /\ tasks[i].handler = h
  /\ tasks[i].pc = pc

\* the Ed course, the integration's phase and the client counter are left
unchanged_course == UNCHANGED <<variant, phase, ed_threads, events, writes>>

\* send_to_api: the request is served by the backend (ok), or the
\* connection or the response fails and send_to_api returns None
send_to_api(ok, Endpoint) ==
  IF ok THEN Endpoint ELSE unchanged_backend

\* fetch_existing_posts up to the listing: the threads of the course whose
\* title contains 'Special Participation', or none when the listing request
\* fails or FETCH_EXISTING_POSTS is off
fetch_existing_posts(ok) ==
  /\ variant = "ed_integration"
  /\ phase = "init"
  /\ phase' = "backfill"
  /\ LET special_posts ==
           {id \in DOMAIN ed_threads :
              is_special_participation(ed_threads[id].title)}
         order == SortBy(special_posts, [id \in special_posts |-> id])
     IN tasks' = IF ok
                 THEN tasks \o [i \in 1..Len(order) |->
                        new_task("backfill", "fetch",
                                 listed(ed_threads[order[i]]), None)]
                 ELSE tasks
  /\ UNCHANGED <<variant, ed_threads, events, writes>>
  /\ unchanged_backend

\* start_listening: client.subscribe (ed_integration.py, once
\* fetch_existing_posts has returned) or client.start (ed_intergration.py)
start_listening ==
  /\ \/ variant = "ed_integration" /\ phase = "backfill"
          /\ \A i \in 1..Len(tasks) : tasks[i].pc = "done"
     \/ variant = "ed_intergration" /\ phase = "init"
  /\ phase' = "listening"
  /\ UNCHANGED <<variant, ed_threads, tasks, events, writes>>
  /\ unchanged_backend

\* fetch_existing_posts, one listed thread: get_thread, with the listed data
\* as the fallback, then process_thread
fetch_existing_posts_fetch(i, ok) ==
  /\ at(i, {"ed_integration"}, "backfill", "fetch")
  /\ LET thread == IF ok THEN ed_threads[tasks[i].thread_id]
                   ELSE tasks[i].thread
     IN tasks' = [tasks EXCEPT ![i].thread = thread,
                               ![i].post = process_thread(thread),
                               ![i].pc = "send_post"]
  /\ unchanged_course
  /\ unchanged_backend

\* handle_new_thread up to the title filter and process_thread
handle_new_thread_fetch(i, ok) ==
  /\ at(i, {"ed_integration"}, "new", "fetch")
  /\ LET thread == ed_threads[tasks[i].thread_id]
     IN tasks' =
          IF ok /\ is_special_participation(thread.title)
          THEN [tasks EXCEPT ![i].thread = thread,
                             ![i].post = process_thread(thread),
                             ![i].pc = "send_post"]
          ELSE [tasks EXCEPT ![i].pc = "done"]
  /\ unchanged_course
  /\ unchanged_backend

\* handle_thread_update up to the title filter and process_thread
handle_thread_update_fetch(i, ok) ==
  /\ at(i, {"ed_integration"}, "update", "fetch")
  /\ LET thread == ed_threads[tasks[i].thread_id]
     IN tasks' =
          IF ok /\ is_special_participation(thread.title)
          THEN [tasks EXCEPT ![i].thread = thread,
                             ![i].post = process_thread(thread),
                             ![i].pc = "send_put"]
          ELSE [tasks EXCEPT ![i].pc = "done"]
  /\ unchanged_course
  /\ unchanged_backend

\* await self.send_to_api('posts', asdict(post)), then the submission gate
send_post(i, ok, gate) ==
  /\ send_to_api(ok, create_post(tasks[i].post))
  /\ tasks' = [tasks EXCEPT ![i].sent = Append(@, "posts"),
                            ![i].pc = IF gate THEN "send_submission"
                                      ELSE "done"]
  /\ unchanged_course

\* await self.send_to_api('submissions', student_data)
send_submission(i, ok) ==
  /\ send_to_api(ok, create_submission(student_data(tasks[i].post)))
  /\ tasks' = [tasks EXCEPT ![i].sent = Append(@, "submissions"),
                            ![i].pc = "done"]
  /\ unchanged_course

\* handle_new_thread (ed_integration.py)
handle_new_thread_post(i, ok) ==
  /\ at(i, {"ed_integration"}, "new", "send_post")
  /\ send_post(i, ok, submission_gate(tasks[i].post))

handle_new_thread_submission(i, ok) ==
  /\ at(i, {"ed_integration"}, "new", "send_submission")
  /\ send_submission(i, ok)

\* fetch_existing_posts, one listed thread
fetch_existing_posts_post(i, ok) ==
  /\ at(i, {"ed_integration"}, "backfill", "send_post")
  /\ send_post(i, ok, submission_gate(tasks[i].post))

fetch_existing_posts_submission(i, ok) ==
  /\ at(i, {"ed_integration"}, "backfill", "send_submission")
  /\ send_submission(i, ok)

\* handle_thread_update that sends the student record of the post
handle_thread_update_put_submission(i, ok) ==
  /\ at(i, {"ed_integration"}, "update", "send_put")
  /\ send_to_api(ok, create_submission(student_data(tasks[i].post)))
  /\ tasks' = [tasks EXCEPT ![i].sent = Append(@, "submissions"),
                            ![i].pc = "done"]
  /\ unchanged_course

\* handle_thread_update: send_to_api(f'posts/{post.post_id}', .., 'PUT')
handle_thread_update_put(i, ok) ==
  /\ at(i, {"ed_integration"}, "update", "send_put")
  /\ send_to_api(ok, update_post(tasks[i].post.post_id[2], tasks[i].post))
  /\ tasks' = [tasks EXCEPT ![i].sent = Append(@, "posts/{post_id}"),
                            ![i].pc = "done"]
  /\ unchanged_course

\* handle_new_thread (ed_intergration.py)
legacy_handle_new_thread_post(i, ok) ==
  /\ at(i, {"ed_intergration"}, "new", "send_post")
  /\ send_post(i, ok, legacy_submission_gate(tasks[i].post))

legacy_handle_new_thread_submission(i, ok) ==
  /\ at(i, {"ed_intergration"}, "new", "send_submission")
  /\ send_submission(i, ok)

\* handle_thread_update (ed_intergration.py): its send_to_api only POSTs,
\* and the backend has no POST route for posts/{post_id}, so the request
\* is answered 405 and send_to_api returns None
legacy_handle_thread_update_post(i) ==
  /\ at(i, {"ed_intergration"}, "update", "send_post")
  /\ tasks' = [tasks EXCEPT ![i].sent = Append(@, "posts/{post_id}"),
                            ![i].pc = "done"]
  /\ unchanged_course
  /\ unchanged_backend

(***************************************************************************)
(* The backend serving API clients                                         *)
(***************************************************************************)
Init ==
  /\ posts = DataStore_init.posts
  /\ submissions = DataStore_init.submissions
  /\ students = DataStore_init.students
  /\ homeworks = DataStore_init.homeworks
  /\ llms = DataStore_init.llms
  /\ started = FALSE
  /\ writes = 0
  /\ request = [op |-> "none"]
  /\ response = None
  /\ variant = "ed_integration"
  /\ phase = "off"
  /\ ed_threads = <<>>
  /\ tasks = <<>>
  /\ events = 0

Next ==
  \/ startup_event
  \/ \E body \in PostBodies : client_create_post(body)
  \/ \E post_id \in ClientPostIds, body \in PostBodies :
       client_update_post(post_id, body)
  \/ \E body \in SubmissionBodies : client_create_submission(body)
  \/ list_students
  \/ list_homeworks
  \/ list_llms
  \/ \E student \in StudentQueries, homework \in HomeworkQueries,
        llm \in LlmQueries : read_submission(student, homework, llm)
  \/ \E participation \in ParticipationFilters,
        students_q \in StudentFilters, homeworks_q \in HomeworkFilters,
        llms_q \in LlmFilters :
       read_posts(participation, students_q, homeworks_q, llms_q)

Spec == Init /\ [][Next]_vars

(***************************************************************************)
(* The backend fed by the Ed integration                                   *)
(***************************************************************************)
InitIngest ==
  /\ posts = DataStore_init.posts
  /\ submissions = DataStore_init.submissions
  /\ students = DataStore_init.students
  /\ homeworks = DataStore_init.homeworks
  /\ llms = DataStore_init.llms
  /\ started = FALSE
  /\ writes = 0
  /\ request = [op |-> "none"]
  /\ response = None
  /\ variant \in Variants
  /\ phase = "init"
  /\ ed_threads = <<>>
  /\ tasks = <<>>
  /\ events = 0

NextIngest ==
  \/ startup_event
  \/ \E id \in EdThreadIds, title \in ThreadTitles : ed_post_thread(id, title)
  \/ \E id \in EdThreadIds, title \in ThreadTitles : ed_edit_thread(id, title)
  \/ \E ok \in BOOLEAN : fetch_existing_posts(ok)
  \/ start_listening
  \/ \E i \in 1..Len(tasks), ok \in BOOLEAN :
       fetch_existing_posts_fetch(i, ok)
  \/ \E i \in 1..Len(tasks), ok \in BOOLEAN :
       fetch_existing_posts_post(i, ok)
  \/ \E i \in 1..Len(tasks), ok \in BOOLEAN :
       fetch_existing_posts_submission(i, ok)
  \/ \E i \in 1..Len(tasks), ok \in BOOLEAN :
       handle_new_thread_fetch(i, ok)
  \/ \E i \in 1..Len(tasks), ok \in BOOLEAN :
       handle_new_thread_post(i, ok)
  \/ \E i \in 1..Len(tasks), ok \in BOOLEAN :
       handle_new_thread_submission(i, ok)
  \/ \E i \in 1..Len(tasks), ok \in BOOLEAN :
       handle_thread_update_fetch(i, ok)
  \/ \E i \in 1..Len(tasks), ok \in BOOLEAN :
       handle_thread_update_put(i, ok)
  \/ \E i \in 1..Len(tasks), ok \in BOOLEAN :
       legacy_handle_new_thread_post(i, ok)
  \/ \E i \in 1..Len(tasks), ok \in BOOLEAN :
       legacy_handle_new_thread_submission(i, ok)
  \/ \E i \in 1..Len(tasks) : legacy_handle_thread_update_post(i)

SpecIngest == InitIngest /\ [][NextIngest]_vars

(***************************************************************************)
(* The classifier called on its own                                        *)
(***************************************************************************)
\* titles, bodies and category labels given to parse_post
ParseTitles ==
  {<<"Special", "Participation", "A", "HW1", "Claude">>,
   <<"Special", "Participation", "E", "HW1", "Claude">>,
   <<"Special", "Participation", "E">>,
   <<"Special", "Participation", "B">>,
   <<"Special", "Participation", "A", "HW0">>,
   <<"pe", "homework", "2">>,
   <<"Question">>}

ParseContents ==
  {<<>>, <<"part", "A">>, <<"hw", "3">>, <<"hw1st">>, <<"Grok">>}

ParseCategories == {<<>>, <<"General">>, <<"Participation", "E">>}

\* EdParticipationParser.parse_post(title, content, category) of
\* ed_integration.py
parse_post_call(title, content, category) ==
  /\ request' = [op |-> "parse_post", title |-> title,
                 content |-> content, category |-> category]
  /\ response' = parse_post(title, content, category)
  /\ unchanged_store
  /\ unchanged_ed
  /\ UNCHANGED <<started, writes>>

\* EdParticipationParser.parse_post(title, content, category) of
\* ed_intergration.py
legacy_parse_post_call(title, content, category) ==
  /\ request' = [op |-> "legacy_parse_post", title |-> title,
                 content |-> content, category |-> category]
  /\ response' = legacy_parse_post(title, content, category)
  /\ unchanged_store
  /\ unchanged_ed
  /\ UNCHANGED <<started, writes>>

NextParse ==
  \/ \E title \in ParseTitles, content \in ParseContents,
        category \in ParseCategories :
       parse_post_call(title, content, category)
  \/ \E title \in ParseTitles, content \in ParseContents,
        category \in ParseCategories :
       legacy_parse_post_call(title, content, category)

SpecParse == Init /\ [][NextParse]_vars

(***************************************************************************)
(* The request model of a post on its own                                  *)
(***************************************************************************)
\* homework_number values of a request body: None, integers, strings and a
\* float (a value of another type is handled through its str())
RawHomeworks ==
  {None, I(0), I(1), I(10),
   S("0"), S("1"), S(" 1"), S("10"),
   S("N/A"), S("n/a"), S("NA"), S("na"), S(" N/A"),
   S("unknown"), S("UNKNOWN"), S("Unknown"), S("unk"),
   S(""), S(" "), S("abc"), S("hw1"), S("1.5"), <<"float", "2.0">>}

RawPostBodies ==
  {[body EXCEPT !.homework_number = v] :
     body \in PostBodies, v \in RawHomeworks}

\* Post(**body).dict()
Post_call(body) ==
  /\ request' = [op |-> "Post", body |-> body]
  /\ response' = Post_dict(body)
  /\ unchanged_store
  /\ unchanged_ed
  /\ UNCHANGED <<started, writes>>

NextPost == \E body \in RawPostBodies : Post_call(body)

SpecPost == Init /\ [][NextPost]_vars

(***************************************************************************)
(* Properties of the store                                                 *)
(***************************************************************************)
\* the posts stored under an identifier
stored_under(post_id) == {i \in 1..Len(posts) : posts[i].post_id = post_id}

\* C1: no two records of the stored post list carry the same post
\* identifier, after any sequence of upserts and the startup seeding.
C1_UniquePostIds ==
  \A i, j \in 1..Len(posts) : posts[i].post_id = posts[j].post_id => i = j

\* C1 witness: an upsert has replaced the demo post 3 and one record
\* carries that identifier.
C1_Witness ==
  /\ request.op \in PostWrites
  /\ request.body.post_id = I(3)
  /\ Len(posts) = 3
  /\ Cardinality(stored_under(I(3))) = 1

\* C2: after the upsert of a record v2 whose identifier was already stored,
\* the record stored under that identifier is exactly v2: it has v2's value
\* in every field, and a field v2 leaves absent is absent (None), whatever
\* the replaced record held there.
C2_ReplacesWholeRecord ==
  request.op \in PostWrites =>
    \A i \in stored_under(request.body.post_id) :
      /\ DOMAIN posts[i] = PostFields
      /\ \A k \in PostFields : posts[i][k] = Post_dict(request.body)[k]

\* C2 witness: demo post 3 (assistant Gemini, category "Participation",
\* homework 2) has been replaced by a record that leaves them absent.
C2_Witness ==
  /\ request.op \in PostWrites
  /\ request.body.post_id = I(3)
  /\ request.body.llm_agent = None
  /\ request.body.homework_number = None
  /\ \E i \in stored_under(I(3)) :
       posts[i].llm_agent = None /\ posts[i].category = None

\* the values observed in the store
stored_submissions == {submissions[k] : k \in DOMAIN submissions}
observed_students ==
  {PyStr(p.author) : p \in {q \in Range(posts) : Truthy(q.author)}}
    \cup {PyStr(b.name) : b \in stored_submissions}
observed_homeworks ==
  {PyStr(p.homework_number) :
     p \in {q \in Range(posts) : ~IsNone(q.homework_number)}}
    \cup {PyStr(b.homework) : b \in stored_submissions}
observed_llms ==
  {PyStr(p.llm_agent) : p \in {q \in Range(posts) : ~IsNone(q.llm_agent)}}
    \cup {PyStr(b.llm) : b \in stored_submissions}

\* C3: in every reachable state the derived sets equal the values observed
\* in the store: the authors, the stringified homework references and the
\* assistant names over all stored posts and submissions.
C3_DerivedSetsEqualStore ==
  /\ students = observed_students
  /\ homeworks = observed_homeworks
  /\ llms = observed_llms

\* the outputs of listStudents, listHomeworks and listAssistants
list_outputs == <<get_students(db), get_homeworks(db), get_llms(db)>>

\* C4: upserting a post record and then upserting the same record again
\* leaves the outputs of listStudents, listHomeworks and listAssistants
\* after the second call equal to those after the first.
C4_UpsertIdempotent ==
  [][(/\ request.op \in PostWrites
      /\ request'.op \in PostWrites
      /\ writes' = writes + 1
      /\ request'.body = request.body)
     => list_outputs' = list_outputs]_vars

\* C4 witness: the record of the previous upsert has been upserted again.
C4_Witness ==
  /\ request.op \in PostWrites
  /\ request.resend
  /\ writes = 2
  /\ posts[Len(posts)] = Post_dict(request.body)

\* the entries of listHomeworks
homework_entries ==
  LET out == get_homeworks(db)
  IN UNION {out[i] : i \in 1..Len(out)}

\* C5: after the upsert of a post or submission whose homework reference is
\* present (an integer including 0, "N/A" or "unknown"), its stringified
\* homework reference is in the known-homeworks set and is an entry of
\* listHomeworks.
C5_HomeworkKnownAfterUpsert ==
  /\ request.op \in PostWrites /\ ~IsNone(request.body.homework_number)
       => /\ PyStr(request.body.homework_number) \in homeworks
          /\ \E e \in homework_entries :
               e.number = PyStr(request.body.homework_number)
  /\ request.op = "create_submission"
       => /\ PyStr(request.body.homework) \in homeworks
          /\ \E e \in homework_entries :
               e.number = PyStr(request.body.homework)

\* C8: upsertSubmission is last-write-wins on the composite key (author,
\* stringified homework reference, assistant name): the call stores its
\* record under that key, every stored record sits under its own key (so
\* at most one per key), and the submissions under other keys are unchanged.
C8_SubmissionLastWriteWins ==
  [][(request'.op = "create_submission" /\ writes' = writes + 1)
     => LET body == request'.body
            key == <<body.name, PyStr(body.homework), body.llm>>
        IN /\ DOMAIN submissions' = DOMAIN submissions \cup {key}
           /\ submissions'[key] = body
           /\ \A k \in DOMAIN submissions \ {key} :
                submissions'[k] = submissions[k]
           /\ \A k \in DOMAIN submissions' :
                k = <<submissions'[k].name, PyStr(submissions'[k].homework),
                      submissions'[k].llm>>]_vars

\* C8 witness: two submissions were upserted under one key and the second
\* one is stored; the posts are still the seeded ones.
C8_Witness ==
  /\ request.op = "create_submission"
  /\ writes = 2
  /\ posts = demo_posts
  /\ Cardinality(DOMAIN submissions) = 1
  /\ \A k \in DOMAIN submissions : submissions[k] = request.body

\* C8 witness for the other keys: a submission under a second key is stored
\* next to the first.
C8_WitnessOtherKey ==
  /\ request.op = "create_submission"
  /\ Cardinality(DOMAIN submissions) = 2

\* the stored posts a getSubmission query is about
posts_of(student, homework, llm) ==
  {i \in 1..Len(posts) :
     /\ posts[i].author = S(student)
     /\ PyStr(posts[i].homework_number) = homework
     /\ posts[i].llm_agent = S(llm)}

\* the composite key of the last getSubmission request
requested_key == <<S(request.student), request.homework, S(request.llm)>>

\* C9 as claimed: getSubmission for a composite key with no stored
\* submission returns post_count = 0, a non-empty summary and the echoed
\* query parameters.
C9_UnknownKeyZeroPosts ==
  (request.op = "get_submission" /\ requested_key \notin DOMAIN submissions)
    => /\ response.post_count = I(0)
       /\ Truthy(response.summary)
       /\ response.student = S(request.student)
       /\ response.homework = S(request.homework)
       /\ response.llm = S(request.llm)

\* C9 amended: getSubmission for a composite key with no stored submission
\* returns post_count = the number of stored posts whose author,
\* stringified homework reference and assistant name equal the query (0
\* when there is none), a non-empty summary and the echoed parameters.
C9_UnknownKeyCountsPosts ==
  (request.op = "get_submission" /\ requested_key \notin DOMAIN submissions)
    => /\ response.post_count =
            I(Cardinality(posts_of(request.student, request.homework,
                                   request.llm)))
       /\ Truthy(response.summary)
       /\ response.student = S(request.student)
       /\ response.homework = S(request.homework)
       /\ response.llm = S(request.llm)

\* C9 witness: a key without a stored submission was queried while one
\* stored post matches it.
C9_Witness ==
  /\ request.op = "get_submission"
  /\ requested_key \notin DOMAIN submissions
  /\ response.post_count = I(1)

\* C9 witness for the zero count: no stored post matches the queried key.
C9_WitnessNoPost ==
  /\ request.op = "get_submission"
  /\ requested_key \notin DOMAIN submissions
  /\ response.post_count = I(0)
  /\ response.summary = S("No posts available to generate summary.")

\* the components of a provided filter, trimmed
filter_values(param) == {strip(param[2][i]) : i \in 1..Len(param[2])}

\* the stored post passes every provided filter of the last getPosts request
passes_filters(post) ==
  /\ ~IsNone(request.participation)
       => \E x \in filter_values(request.participation) :
            post.participation_type = S(upper(x))
  /\ ~IsNone(request.students)
       => \E x \in filter_values(request.students) : post.author = S(x)
  /\ ~IsNone(request.homeworks)
       => /\ ~IsNone(post.homework_number)
          /\ PyStr(post.homework_number) \in filter_values(request.homeworks)
  /\ ~IsNone(request.llms)
       => \E x \in filter_values(request.llms) : post.llm_agent = S(x)

\* C10: the result of getPosts is exactly the stored posts, in stored
\* order, that pass every provided filter; an absent filter removes none.
C10_GetPostsFilters ==
  request.op = "get_posts" =>
    LET expected == SelectSeq(posts, passes_filters)
    IN /\ Len(response) = Len(expected)
       /\ \A i \in 1..Len(expected) :
            response[i].post_id = expected[i].post_id

(***************************************************************************)
(* Properties of the ingestion                                             *)
(***************************************************************************)
\* C6: every stored submission, keyed (author, homework, assistant), has
\* at least one stored post with that author, that stringified homework
\* reference and that assistant name, and with a participation category,
\* in every state reached by new-thread events, thread-update events and
\* failed or successful deliveries.
C6_SubmissionHasPost ==
  \A key \in DOMAIN submissions :
    \E i \in 1..Len(posts) :
      /\ posts[i].author = key[1]
      /\ PyStr(posts[i].homework_number) = key[2]
      /\ posts[i].llm_agent = key[3]
      /\ Truthy(posts[i].participation_type)

\* the tasks of the handlers that gate a submission and have run past the
\* gate
gated_tasks ==
  {i \in 1..Len(tasks) :
     /\ tasks[i].handler \in {"new", "backfill"}
     /\ tasks[i].pc = "done"
     /\ "posts" \in Range(tasks[i].sent)}

\* C7: a handler that has processed a post sends a submission upsert if
\* and only if the post's participation category is present, its assistant
\* name is present and its homework reference is an integer, 0 included.
C7_SubmissionGate ==
  \A i \in gated_tasks :
    ("submissions" \in Range(tasks[i].sent)) <=>
      /\ Truthy(tasks[i].post.participation_type)
      /\ Truthy(tasks[i].post.llm_agent)
      /\ IsInt(tasks[i].post.homework_number)

(***************************************************************************)
(* Properties of the read endpoints                                        *)
(***************************************************************************)
\* the last request is getPosts with the homeworks filter only
homeworks_filter_only ==
  /\ request.op = "get_posts"
  /\ ~IsNone(request.homeworks)
  /\ IsNone(request.participation)
  /\ IsNone(request.students)
  /\ IsNone(request.llms)

\* the identifiers of the posts getPosts returned
returned_ids == {response[j].post_id : j \in 1..Len(response)}

\* C11: the homeworks filter of getPosts compares homework references as
\* strings: every stored post with a present homework reference h (an
\* integer including 0, "N/A" or "unknown") is returned by getPosts with
\* str(h) among the homeworks and no other filter.
C11_HomeworksFilterAsStrings ==
  homeworks_filter_only =>
    \A i \in 1..Len(posts) :
      (/\ ~IsNone(posts[i].homework_number)
       /\ PyStr(posts[i].homework_number)
            \in filter_values(request.homeworks))
        => posts[i].post_id \in returned_ids

\* the stored post a returned entry displays
stored_post(entry) ==
  posts[CHOOSE i \in 1..Len(posts) : posts[i].post_id = entry.post_id]

\* C12: for every stored post getPosts returns, the returned title is
\* "Untitled" when the stored title is empty, the returned author is
\* "Unknown" when the stored author is empty, and the returned
\* participation is "A" when the stored participation category is absent.
C12_DisplayDefaults ==
  request.op = "get_posts" =>
    \A j \in 1..Len(response) :
      LET post == stored_post(response[j])
      IN /\ post.title = S("") => response[j].title = S("Untitled")
         /\ post.author = S("") => response[j].author = S("Unknown")
         /\ IsNone(post.participation_type)
              => response[j].participation = S("A")

\* the position of the entry for hw in the last listHomeworks response:
\* entries with equal sort keys share a position, since sorted() leaves
\* them in the iteration order of the set
position_of(hw) ==
  CHOOSE i \in 1..Len(response) : \E e \in response[i] : e.number = hw

\* the values of the entries of the last listHomeworks response
listed_homeworks == UNION {{e.number : e \in response[i]} :
                             i \in 1..Len(response)}

\* the number of entries of the last listHomeworks response
entry_count ==
  Sum([i \in 1..Len(response) |-> Cardinality(response[i])])

\* C13: listHomeworks returns exactly one entry per element of the
\* known-homeworks set; entries whose value is a decimal number are in
\* ascending numeric order (2 before 10), and every other entry ("unknown",
\* "N/A") precedes every entry with a positive number.
C13_HomeworksNumericOrder ==
  request.op = "get_homeworks" =>
    /\ listed_homeworks = homeworks
    /\ entry_count = Cardinality(homeworks)
    /\ \A x, y \in homeworks :
         /\ (isdigit(x) /\ isdigit(y) /\ int(x) < int(y))
              => position_of(x) < position_of(y)
         /\ (~isdigit(x) /\ isdigit(y) /\ int(y) > 0)
              => position_of(x) < position_of(y)

\* C13 witness: "2" is listed before "10", after the sentinel "unknown".
C13_Witness ==
  /\ request.op = "get_homeworks"
  /\ {"2", "10", "unknown"} \subseteq homeworks
  /\ position_of("unknown") < position_of("2")
  /\ position_of("2") < position_of("10")

\* the stored posts whose stringified homework reference is hw
posts_with_homework(hw) ==
  {i \in 1..Len(posts) : PyStr(posts[i].homework_number) = hw}

\* C14: every listHomeworks entry with value hw lists exactly the distinct
\* non-empty authors, and exactly the distinct assistant names, of the
\* posts currently stored whose stringified homework reference is hw; a
\* value held only by a replaced post version or only by a submission has
\* empty annotations.
C14_HomeworkAnnotations ==
  request.op = "get_homeworks" =>
    \A i \in 1..Len(response) : \A e \in response[i] :
      /\ e.students =
           {posts[k].author[2] :
              k \in {n \in posts_with_homework(e.number) :
                       posts[n].author # S("")}}
      /\ e.llms =
           {posts[k].llm_agent[2] :
              k \in {n \in posts_with_homework(e.number) :
                       ~IsNone(posts[n].llm_agent)}}

\* C14 witness: "10" is known from a submission only and "2" from the
\* replaced demo post 3 only, so both entries have empty annotations, while
\* the entry of "1" names the authors of the demo posts 1 and 2.
C14_Witness ==
  /\ request.op = "get_homeworks"
  /\ {"1", "2", "10"} \subseteq homeworks
  /\ \E e \in response[position_of("10")] :
       e.number = "10" /\ e.students = {} /\ e.llms = {}
  /\ \E e \in response[position_of("2")] :
       e.number = "2" /\ e.students = {} /\ e.llms = {}
  /\ \E e \in response[position_of("1")] :
       e.number = "1" /\ e.students = {"Alice Johnson", "Bob Smith"}

\* the stored posts naming the assistant llm
posts_with_llm(llm) == {i \in 1..Len(posts) : posts[i].llm_agent = S(llm)}

\* C15: listAssistants returns one entry per known assistant name in
\* alphabetical order; each entry's homeworks are exactly the distinct
\* stringified homework references ("0" for homework 0 included) of the
\* stored posts naming that assistant, and its students exactly the
\* distinct authors of those posts.
C15_AssistantAnnotations ==
  request.op = "get_llms" =>
    /\ {response[i].name : i \in 1..Len(response)} = llms
    /\ Len(response) = Cardinality(llms)
    /\ \A i, j \in 1..Len(response) :
         i < j => StringRank(response[i].name) < StringRank(response[j].name)
    /\ \A i \in 1..Len(response) :
         /\ response[i].homeworks =
              {PyStr(posts[k].homework_number) :
                 k \in {n \in posts_with_llm(response[i].name) :
                          ~IsNone(posts[n].homework_number)}}
         /\ response[i].students =
              {posts[k].author[2] :
                 k \in {n \in posts_with_llm(response[i].name) :
                          posts[n].author # S("")}}

(***************************************************************************)
(* Properties of the classifier                                            *)
(***************************************************************************)
\* the tasks that have built their post
processed_tasks ==
  {i \in 1..Len(tasks) :
     \/ tasks[i].pc \in {"send_post", "send_put", "send_submission"}
     \/ tasks[i].sent # <<>>}

\* the assistant patterns of the running script
running_patterns ==
  IF variant = "ed_integration" THEN LLM_PATTERNS ELSE legacy_LLM_PATTERNS

\* no word and no word pair of the thread's text is an assistant pattern
no_assistant_pattern(thread) ==
  LET text == lower_words(thread.title \o thread.content)
  IN \A k \in 1..Len(running_patterns) :
       /\ \A w \in running_patterns[k].words : ~has_word(text, w)
       /\ \A pr \in running_patterns[k].pairs :
            ~has_pair(text, pr[1], pr[2])

\* the names of the entries of listAssistants
assistant_names ==
  LET out == get_llms(db) IN {out[i].name : i \in 1..Len(out)}

\* C16: a post classified from a text with no recognized assistant pattern
\* has no assistant name, and the upsert of a post without assistant name
\* leaves the known-assistants set unchanged, so listAssistants gains no
\* entry.
C16_NoAssistantNoEntry ==
  /\ [](\A i \in processed_tasks :
          no_assistant_pattern(tasks[i].thread)
            => IsNone(tasks[i].post.llm_agent))
  /\ [][(/\ request' # request
         /\ request'.op \in PostWrites
         /\ IsNone(request'.body.llm_agent))
        => (llms' = llms /\ assistant_names' = assistant_names)]_vars

\* C16 witness: the post of a thread whose title names no assistant has
\* been delivered and stored without assistant name.
C16_Witness ==
  /\ request.op \in PostWrites
  /\ request.body.title = S("Special Participation A HW1")
  /\ IsNone(request.body.llm_agent)
  /\ \E i \in 1..Len(posts) :
       posts[i].post_id = I(4) /\ IsNone(posts[i].llm_agent)
  /\ llms = {"Claude", "ChatGPT", "Gemini"}

\* the lower-cased text parse_post searches
parsed_text ==
  lower_words(request.title \o request.content \o request.category)

\* the categories of PARTICIPATION_PATTERNS, in dict order
Categories == <<"A", "B", "C", "D", "E">>

\* the pattern of category k matches the text
category_matches(k) == participation_match(parsed_text, lower(Categories[k]))

\* C17: the extracted category is the first one in the order A, B, C, D, E
\* whose pattern matches the text of title, body and category label, and
\* is absent when no pattern matches.
C17_FirstCategoryWins ==
  request.op = "parse_post" =>
    /\ \A k \in 1..Len(Categories) :
         (category_matches(k) /\ \A j \in 1..(k - 1) : ~category_matches(j))
           => response.participation_type = S(Categories[k])
    /\ (\A k \in 1..Len(Categories) : ~category_matches(k))
         => IsNone(response.participation_type)

\* C17 witness: the patterns of A and E both match and A is returned.
C17_Witness ==
  /\ request.op = "parse_post"
  /\ category_matches(1)
  /\ category_matches(5)
  /\ response.participation_type = S("A")

\* C17 witness: no pattern matches and the category is absent.
C17_WitnessAbsent ==
  /\ request.op = "parse_post"
  /\ \A k \in 1..Len(Categories) : ~category_matches(k)
  /\ IsNone(response.participation_type)

\* a homework-number-like substring ("hw N", "homework N", "hwN") occurs
has_homework_number ==
  \E i \in 1..Len(parsed_text) : fallback_at(parsed_text, i) >= 0

\* C18 as stated: every text with a category-E trigger gets the homework
\* reference "N/A", whatever homework number and whatever other category
\* trigger it contains.
C18_ETriggerAlwaysNA ==
  (request.op = "parse_post" /\ category_matches(5))
    => response.homework_number = S("N/A")

\* C18: every text with a category-E trigger and no trigger of A, B, C or D
\* is classified E with the homework reference "N/A", whatever homework
\* number it contains.
C18_CategoryENA ==
  (/\ request.op = "parse_post"
   /\ category_matches(5)
   /\ \A k \in 1..4 : ~category_matches(k))
    => /\ response.participation_type = S("E")
       /\ response.homework_number = S("N/A")

\* C18 witness: a text classified E that contains a homework number.
C18_Witness ==
  /\ request.op = "parse_post"
  /\ category_matches(5)
  /\ \A k \in 1..4 : ~category_matches(k)
  /\ has_homework_number
  /\ response.homework_number = S("N/A")

\* C18 witness: a text with the triggers of E and of an earlier category,
\* classified with the homework number it contains.
C18_WitnessOtherCategory ==
  /\ request.op = "parse_post"
  /\ category_matches(5)
  /\ category_matches(1)
  /\ response.participation_type = S("A")
  /\ response.homework_number = I(1)

\* the number of the leftmost match of the primary pattern, else -1
primary_number ==
  first_match([i \in 1..Len(parsed_text) |-> homework_at(parsed_text, i)])

\* the number of the leftmost match of the fallback pattern, else -1
fallback_number ==
  first_match([i \in 1..Len(parsed_text) |-> fallback_at(parsed_text, i)])

\* the homework reference of a text whose category is not E
expected_homework ==
  IF primary_number >= 0 THEN I(primary_number)
  ELSE IF fallback_number >= 0 THEN I(fallback_number)
  ELSE S("unknown")

\* C19: for a text whose category is not E the homework reference is the
\* integer of the first homework-number match (0 for "HW0"), is "unknown"
\* exactly when neither the primary nor the fallback pattern matches, and
\* is never absent.
C19_HomeworkNumberOrUnknown ==
  (/\ request.op \in {"parse_post", "legacy_parse_post"}
   /\ response.participation_type # S("E"))
    => /\ ~IsNone(response.homework_number)
       /\ response.homework_number = expected_homework
       /\ (response.homework_number = S("unknown")
             <=> (primary_number < 0 /\ fallback_number < 0))

(***************************************************************************)
(* Lifetime of the stored data                                             *)
(***************************************************************************)
\* the identifiers of the stored posts
stored_post_ids == {posts[i].post_id : i \in 1..Len(posts)}

\* the keys of the stored submissions
stored_submission_keys == DOMAIN submissions

\* C20: nothing is deleted from the store: in every step the stored post
\* identifiers, the stored submission keys and the known students,
\* homeworks and assistants each keep all their elements.
C20_NothingDeleted ==
  [][/\ stored_post_ids \subseteq stored_post_ids'
     /\ stored_submission_keys \subseteq stored_submission_keys'
     /\ students \subseteq students'
     /\ homeworks \subseteq homeworks'
     /\ llms \subseteq llms']_vars

\* C20 witness: post 3 has been replaced by a post of another author, and
\* the author, homework and assistant of the replaced post are still known.
C20_Witness ==
  /\ started
  /\ request.op \in PostWrites
  /\ request.body.post_id = I(3)
  /\ \E i \in 1..Len(posts) :
       /\ posts[i].post_id = I(3)
       /\ posts[i] = request.body
  /\ \E s \in students : s \notin observed_students
  /\ \E l \in llms : l \notin observed_llms
  /\ stored_submission_keys # {}

(***************************************************************************)
(* Properties of the ingestion paths                                       *)
(***************************************************************************)
\* C21: every store write of the ingestion, on the new-thread, the
\* thread-update and the backfill path, is sent for a thread whose title,
\* as processed, contains "Special Participation".
C21_OnlySpecialParticipation ==
  [][(/\ request' # request
      /\ request'.op \in PostWrites \cup {"create_submission"})
       => \E i \in 1..Len(tasks) :
            /\ tasks'[i].sent # tasks[i].sent
            /\ is_special_participation(tasks[i].thread.title)]_vars

(***************************************************************************)
(* Properties of the request models                                        *)
(***************************************************************************)
\* C22: the normalization of homework_number on a post write maps every
\* value to absent, an integer, "N/A" or "unknown"; a value that is no
\* sentinel and no integer (the empty string too) gives "unknown"; a
\* normalized value is returned unchanged.
C22_NormalizationTotal ==
  request.op = "Post" =>
    LET v == request.body.homework_number
        out == response.homework_number
        Normalized(x) ==
          IsNone(x) \/ IsInt(x) \/ x \in {S("N/A"), S("unknown")}
        NotApplicableSpellings == {"N/A", "n/a", "NA", "na", " N/A"}
        UnknownSpellings == {"unknown", "UNKNOWN", "Unknown", "unk"}
        NumberSpellings == {"0", "1", " 1", "10"}
    IN /\ Normalized(out)
       /\ (/\ ~IsNone(v)
           /\ ~IsInt(v)
           /\ v[2] \notin NotApplicableSpellings \cup UnknownSpellings
                            \cup NumberSpellings)
            => out = S("unknown")
       /\ Normalized(v) => out = v

\* C22 witness: the empty string has been normalized to "unknown".
C22_Witness ==
  /\ request.op = "Post"
  /\ request.body.homework_number = S("")
  /\ response.homework_number = S("unknown")

\* C22 witness: the sentinel "N/A" has been normalized to itself.
C22_WitnessNormalized ==
  /\ request.op = "Post"
  /\ request.body.homework_number = S("N/A")
  /\ response.homework_number = S("N/A")

(***************************************************************************)
(* Reads between the writes                                                *)
(***************************************************************************)
\* C23: every handler runs from start to end without an await, so a read
\* served between upserts finds the store complete (every identifier once,
\* the author and the assistant of every stored post in the derived sets),
\* finds the post of the last upsert, and changes nothing: a replaced post
\* is never missing, never stored twice, and never ahead of the derived
\* sets.
C23_ReadsSeeWholeWrites ==
  /\ [](request.op \in {"get_posts", "get_homeworks", "get_llms",
                        "get_submission", "get_students"} \cup PostWrites
          => /\ \A i, j \in 1..Len(posts) :
                  posts[i].post_id = posts[j].post_id => i = j
             /\ \A i \in 1..Len(posts) :
                  /\ Truthy(posts[i].author)
                       => PyStr(posts[i].author) \in students
                  /\ Truthy(posts[i].llm_agent)
                       => PyStr(posts[i].llm_agent) \in llms)
  /\ [](request.op \in PostWrites =>
          \E i \in 1..Len(posts) : posts[i] = Post_dict(request.body))
  /\ [][request'.op \in {"get_posts", "get_homeworks", "get_llms",
                         "get_submission", "get_students"}
         => UNCHANGED <<posts, submissions, students, homeworks, llms>>]_vars

\* C23 witness: getPosts is served right after post 3 has been replaced.
C23_Witness ==
  /\ request.op = "get_posts"
  /\ writes > 0
  /\ \E i \in 1..Len(posts) :
       /\ posts[i].post_id = I(3)
       /\ posts[i].author = S("Dan Brown")
  /\ "Dan Brown" \in students

(***************************************************************************)
(* Properties of the summary                                               *)
(***************************************************************************)
\* C24 as stated: the summary is the fixed "no posts" message if and only
\* if the candidate list is empty, and the computed report for every
\* non-empty list.
C24_ReportForEveryNonEmptyList ==
  request.op = "get_submission" =>
    LET candidates ==
          posts_of(request.student, request.homework, request.llm)
    IN /\ response.summary = S("No posts available to generate summary.")
            <=> candidates = {}
       /\ candidates # {} => response.summary[1] = "report"

\* C24: the summary is the fixed "no posts" message if and only if the
\* candidate list is empty; for a non-empty list it is the computed report
\* over the candidates when one of them has content, and the fixed "no
\* content" message when none has.
C24_ReportForListWithContent ==
  request.op = "get_submission" =>
    LET candidates ==
          posts_of(request.student, request.homework, request.llm)
    IN /\ response.summary = S("No posts available to generate summary.")
            <=> candidates = {}
       /\ (\E i \in candidates : Truthy(posts[i].content))
            => /\ response.summary[1] = "report"
               /\ response.summary[2].total_posts = Cardinality(candidates)
       /\ (/\ candidates # {}
           /\ \A i \in candidates : ~Truthy(posts[i].content))
            => response.summary =
                 S("No content available in posts to generate summary.")

\* C24 witness: a report computed over one candidate post.
C24_Witness ==
  /\ request.op = "get_submission"
  /\ Cardinality(posts_of(request.student, request.homework,
                          request.llm)) = 1
  /\ response.summary[1] = "report"
  /\ response.summary[2].total_posts = 1

\* C24 witness: the candidate list is empty.
C24_WitnessEmpty ==
  /\ request.op = "get_submission"
  /\ posts_of(request.student, request.homework, request.llm) = {}
  /\ response.summary = S("No posts available to generate summary.")

\* C24 witness: the only candidate post has the empty string as content.
C24_WitnessNoContent ==
  /\ request.op = "get_submission"
  /\ posts_of(request.student, request.homework, request.llm) # {}
  /\ response.summary =
       S("No content available in posts to generate summary.")

(***************************************************************************)
(* Position of an upserted post                                            *)
(***************************************************************************)
\* C25: an upserted post is the last element of the list; the other posts
\* keep their relative order; the length grows by 1 for a new identifier
\* and by 0 for a stored one.
C25_UpsertMovesToEnd ==
  [][(started /\ request'.op \in PostWrites
        /\ (request' # request \/ posts' # posts))
       => LET id == request'.body.post_id
              before == [i \in 1..Len(posts) |-> posts[i].post_id]
              after == [i \in 1..Len(posts') |-> posts'[i].post_id]
              others == SelectSeq(before, LAMBDA x : x # id)
          IN /\ after = Append(others, id)
             /\ Len(posts') = Len(posts)
                  + (IF id \in stored_post_ids THEN 0 ELSE 1)]_vars

\* C25 witness: the demo post 3 has been replaced, then post 4 created,
\* and both follow the demo posts 1 and 2 in the order of their upserts.
C25_Witness ==
  /\ request.op \in PostWrites
  /\ [i \in 1..Len(posts) |-> posts[i].post_id] = <<I(1), I(2), I(3), I(4)>>
  /\ posts[3].author = S("Dan Brown")

\* C25 witness: post 4 has been created and the demo post 3 upserted after
\* it, which moves post 3 behind post 4.
C25_WitnessMoved ==
  /\ request.op \in PostWrites
  /\ [i \in 1..Len(posts) |-> posts[i].post_id] = <<I(1), I(2), I(4), I(3)>>

(***************************************************************************)
(* getSubmission for a stored submission                                   *)
(***************************************************************************)
\* C26: getSubmission for a key with a stored submission returns the stored
\* fields over the synthesized response; the summary is the stored one only
\* if it is non-empty and the generated one otherwise; the submission
\* stored for (name, h, assistant) is found under (name, str(h), assistant).
C26_StoredSubmissionMerged ==
  /\ request.op = "create_submission" =>
       <<request.body.name, PyStr(request.body.homework), request.body.llm>>
         \in DOMAIN submissions
  /\ (request.op = "get_submission" /\ requested_key \in DOMAIN submissions)
       => LET stored == submissions[requested_key]
              candidate_list ==
                SelectSeq(posts,
                  LAMBDA post : /\ post.author = S(request.student)
                                /\ PyStr(post.homework_number)
                                     = request.homework
                                /\ post.llm_agent = S(request.llm))
              generated == generate_executive_summary(candidate_list)
          IN /\ \A k \in DOMAIN stored \ {"summary"} : response[k] = stored[k]
             /\ stored.name = S(request.student)
             /\ PyStr(stored.homework) = request.homework
             /\ stored.llm = S(request.llm)
             /\ response.student = S(request.student)
             /\ response.post_count = I(Len(candidate_list))
             /\ response.pdfUrls = L(collect_pdf_urls(candidate_list))
             /\ DOMAIN response =
                  DOMAIN stored \cup {"pdfUrl", "pdfUrls", "student",
                                      "post_count", "summary", "homework",
                                      "llm"}
             /\ response.summary =
                  IF "summary" \in DOMAIN stored /\ Truthy(stored.summary)
                  THEN stored.summary ELSE generated

\* C26 witness: the submission stored with the integer homework 0 has been
\* found by the query "0" and its integer has replaced the query string.
C26_Witness ==
  /\ request.op = "get_submission"
  /\ request.homework = "0"
  /\ requested_key \in DOMAIN submissions
  /\ response.homework = I(0)
  /\ response.name = S("Dan Brown")

(***************************************************************************)
(* Thread-update events                                                    *)
(***************************************************************************)
\* C27: the handler of a thread-update event sends at most one request, a
\* post upsert for its thread, and never a submission: no step of such a
\* handler changes the submissions map, and a step that changes the store
\* is the PUT of the post of its thread.
C27_UpdateWritesOnePost ==
  /\ [](\A i \in 1..Len(tasks) :
          tasks[i].handler = "update"
            => /\ Len(tasks[i].sent) <= 1
               /\ \A j \in 1..Len(tasks[i].sent) :
                    tasks[i].sent[j] # "submissions")
  /\ [][\A i \in 1..Len(tasks) :
          (tasks[i].handler = "update" /\ tasks'[i].pc # tasks[i].pc)
            => /\ submissions' = submissions
               /\ (posts' # posts \/ request' # request)
                    => /\ request'.op = "update_post"
                       /\ request'.body = tasks[i].post
                       /\ request'.body.post_id = I(tasks[i].thread_id)]_vars

\* C27 witness: a thread stored with an unknown homework has been edited to
\* name homework 1; the update handler has stored the post, which passes
\* the submission gate, and no submission is stored for it.
C27_Witness ==
  /\ variant = "ed_integration"
  /\ request.op = "update_post"
  /\ \E i \in 1..Len(tasks) :
       /\ tasks[i].handler = "update"
       /\ tasks[i].pc = "done"
       /\ tasks[i].sent = <<"posts/{post_id}">>
       /\ submission_gate(tasks[i].post)
       /\ \E j \in 1..Len(posts) : posts[j] = Post_dict(tasks[i].post)
  /\ DOMAIN submissions = {}

\* C28: an older fetched version of a thread never overwrites a newer one:
\* when the post stored for a thread is the post of the thread as it is on
\* Ed now (the newest version a handler can have fetched), a handler's
\* write leaves that version stored.
C28_NoStaleOverwrite ==
  [][LET StoredIsCurrent(store_posts, id) ==
           \E j \in 1..Len(store_posts) :
             /\ store_posts[j].post_id = I(id)
             /\ store_posts[j].title = S(join(ed_threads[id].title))
     IN \A id \in DOMAIN ed_threads :
          (StoredIsCurrent(posts, id) /\ ed_threads' = ed_threads)
            => StoredIsCurrent(posts', id)]_vars

(***************************************************************************)
(* Derived sets and stored posts                                           *)
(***************************************************************************)
\* C29: every non-empty author of a stored post is a known student and
\* every non-empty assistant name of a stored post is a known assistant,
\* and listStudents and listAssistants return all of them.
C29_DerivedSetsCoverPosts ==
  LET stored_authors ==
        {PyStr(posts[i].author) :
           i \in {j \in 1..Len(posts) : Truthy(posts[j].author)}}
      stored_llm_agents ==
        {PyStr(posts[i].llm_agent) :
           i \in {j \in 1..Len(posts) : Truthy(posts[j].llm_agent)}}
      response_names == {response[i].name : i \in 1..Len(response)}
  IN /\ stored_authors \subseteq students
     /\ stored_llm_agents \subseteq llms
     /\ request.op = "get_students" => stored_authors \subseteq response_names
     /\ request.op = "get_llms" => stored_llm_agents \subseteq response_names

\* C29 witness: listAssistants is served after a client has stored a post
\* that names Grok, and Grok is listed.
C29_Witness ==
  /\ request.op = "get_llms"
  /\ \E i \in 1..Len(posts) : posts[i].llm_agent = S("Grok")
  /\ \E i \in 1..Len(response) : response[i].name = "Grok"

\* C29 witness: listStudents is served after a client has stored a post of
\* Dan Brown, and Dan Brown is listed.
C29_WitnessStudents ==
  /\ request.op = "get_students"
  /\ \E i \in 1..Len(posts) : posts[i].author = S("Dan Brown")
  /\ \E i \in 1..Len(response) : response[i].name = "Dan Brown"

(***************************************************************************)
(* The update endpoint                                                     *)
(***************************************************************************)
\* C30: PUT /api/posts/{post_id} upserts the record under the identifier of
\* the body and ignores the path identifier: the post stored under a
\* different path identifier is left as it is, the post of the body is
\* stored under the body's identifier, and the response echoes the path
\* identifier.
C30_UpdateUsesBodyIdentifier ==
  [][(request'.op = "update_post" /\ writes' = writes + 1)
       => LET RecordsUnder(store_posts, id) ==
                {store_posts[i] : i \in {j \in 1..Len(store_posts) :
                                          store_posts[j].post_id = id}}
              path == I(request'.post_id)
              body == request'.body
          IN /\ response'.post_id = path
             /\ RecordsUnder(posts', body.post_id) = {Post_dict(body)}
             /\ path # body.post_id
                  => RecordsUnder(posts', path)
                       = RecordsUnder(posts, path)]_vars

\* C30 witness: PUT /api/posts/3 with a body for post 4 has been served:
\* the demo post 3 is still stored, post 4 is stored, and the response
\* names post 3.
C30_Witness ==
  /\ request.op = "update_post"
  /\ request.post_id = 3
  /\ request.body.post_id = I(4)
  /\ response.post_id = I(3)
  /\ \E i \in 1..Len(posts) :
       posts[i].post_id = I(3) /\ posts[i].author = S("Carol Williams")
  /\ \E i \in 1..Len(posts) : posts[i] = Post_dict(request.body)

====
